---- MODULE Spec2Model ----
(***************************************************************************)
(* Reversi / Othello single-page application (src/src/App.jsx): the rules  *)
(* engine (getValidMoves, applyMove, countScore, aiPick), the component    *)
(* state of ReversiApp and its event handlers, and the delayed computer    *)
(* move started by the "AI move" effect.                                   *)
(***************************************************************************)
EXTENDS Integers, Sequences, FiniteSets, TLC

(***************************************************************************)
(* Program constants.                                                      *)
(***************************************************************************)
N == 8
EMPTY == 0
BLACK == 1
WHITE == 2
DRAW == 3

DIRS ==
  << <<-1, -1>>, <<-1, 0>>, <<-1, 1>>, <<0, -1>>,
     <<0, 1>>, <<1, -1>>, <<1, 0>>, <<1, 1>> >>

WEIGHTS ==
  << <<120, -20, 20, 5, 5, 20, -20, 120>>,
     <<-20, -40, -5, -5, -5, -5, -40, -20>>,
     <<20, -5, 15, 3, 3, 15, -5, 20>>,
     <<5, -5, 3, 3, 3, 3, -5, 5>>,
     <<5, -5, 3, 3, 3, 3, -5, 5>>,
     <<20, -5, 15, 3, 3, 15, -5, 20>>,
     <<-20, -40, -5, -5, -5, -5, -40, -20>>,
     <<120, -20, 20, 5, 5, 20, -20, 120>> >>

\* JavaScript's null and the empty / pass message strings.
Null == "null"
NoMessage == ""
PassMessage == "pass"

(***************************************************************************)
(* Bounds of the model.                                                    *)
(***************************************************************************)
\* Moves applied to one game (length of the undo history).
MaxPlies == 9
\* setTimeout continuations of the AI effect that have not yet run.
MaxTimers == 2

Idx == 0 .. (N - 1)
Cells == Idx \X Idx

\* Always TRUE.  TLC passes operator arguments unevaluated; testing the
\* accumulator of a loop at each iteration makes TLC evaluate it there.
Evaluated(x) == x = x

(***************************************************************************)
(* Board helpers.  A board is board[r][c], r and c in 0..N-1.              *)
(***************************************************************************)
cloneBoard(b) == [r \in DOMAIN b |-> [c \in DOMAIN b[r] |-> b[r][c]]]

inBounds(r, c) == r >= 0 /\ r < N /\ c >= 0 /\ c < N

opponent(p) == IF p = BLACK THEN WHITE ELSE BLACK

\* An initial board with the two colours exchanged.
initBoard_Swapped ==
  LET b == [r \in Idx |-> [c \in Idx |-> EMPTY]]
  IN [b EXCEPT ![3][3] = BLACK, ![3][4] = WHITE, ![4][3] = WHITE, ![4][4] = BLACK]

initBoard ==
  LET b == [r \in Idx |-> [c \in Idx |-> EMPTY]]
  IN [b EXCEPT ![3][3] = WHITE, ![3][4] = BLACK, ![4][3] = BLACK, ![4][4] = WHITE]

\* The inner loop over c, then the outer loop over r.
RECURSIVE countRow(_, _, _, _)
countRow(board, r, c, acc) ==
  IF Evaluated(acc) /\ c >= N THEN acc
  ELSE IF board[r][c] = BLACK
       THEN countRow(board, r, c + 1, [acc EXCEPT !.black = @ + 1])
       ELSE IF board[r][c] = WHITE
            THEN countRow(board, r, c + 1, [acc EXCEPT !.white = @ + 1])
            ELSE countRow(board, r, c + 1, acc)

RECURSIVE countRows(_, _, _)
countRows(board, r, acc) ==
  IF r >= N THEN acc ELSE countRows(board, r + 1, countRow(board, r, 0, acc))

countScore(board) == countRows(board, 0, [black |-> 0, white |-> 0])

(***************************************************************************)
(* Map keys: the template literal `${r},${c}` and its inverse              *)
(* key.split(",").map(Number).  A key is the sequence of its characters.   *)
(***************************************************************************)
Digits == <<"0", "1", "2", "3", "4", "5", "6", "7", "8", "9">>

\* String(n) of a non-negative integer, as its characters.
RECURSIVE ToChars(_)
ToChars(n) == IF n < 10 THEN <<Digits[n + 1]>>
              ELSE Append(ToChars(n \div 10), Digits[(n % 10) + 1])

Key(r, c) == ToChars(r) \o <<",">> \o ToChars(c)

DigitValue(ch) == CHOOSE d \in 0 .. 9 : Digits[d + 1] = ch

\* Number(s) of a string of decimal digits.
RECURSIVE ToNumber(_)
ToNumber(chars) ==
  IF Len(chars) = 0 THEN 0
  ELSE 10 * ToNumber(SubSeq(chars, 1, Len(chars) - 1)) + DigitValue(chars[Len(chars)])

CommaAt(key) == CHOOSE i \in 1 .. Len(key) : key[i] = "," /\ \A j \in 1 .. (i - 1) : key[j] # ","

\* key.split(",").map(Number), first two parts.
SplitKey(key) ==
  LET i == CommaAt(key)
  IN <<ToNumber(SubSeq(key, 1, i - 1)), ToNumber(SubSeq(key, i + 1, Len(key)))>>

(***************************************************************************)
(* A JavaScript Map, as the sequence of its entries in insertion order.    *)
(***************************************************************************)
MapSize(m) == Len(m)

MapHas(m, k) == \E i \in 1 .. Len(m) : m[i].key = k

MapGet(m, k) == m[CHOOSE i \in 1 .. Len(m) : m[i].key = k].flips

MapSet(m, k, v) ==
  IF MapHas(m, k)
  THEN [i \in 1 .. Len(m) |-> IF m[i].key = k THEN [key |-> k, flips |-> v] ELSE m[i]]
  ELSE Append(m, [key |-> k, flips |-> v])

(***************************************************************************)
(* Move generator.                                                         *)
(***************************************************************************)
\* The while loop of one direction: collects consecutive opponent discs from
\* (rr, cc) on and returns the line with the cell the loop stopped at.
RECURSIVE probe(_, _, _, _, _, _, _)
probe(board, opp, rr, cc, dr, dc, line) ==
  IF inBounds(rr, cc) /\ board[rr][cc] = opp
  THEN probe(board, opp, rr + dr, cc + dc, dr, dc, Append(line, <<rr, cc>>))
  ELSE [rr |-> rr, cc |-> cc, line |-> line]

\* The capture test without its check of the cell that ends the line.
lineCaptured_AnyEnd(board, player, p) ==
  Len(p.line) > 0

\* The test that decides whether a probed line is captured.
lineCaptured(board, player, p) ==
  Len(p.line) > 0 /\ inBounds(p.rr, p.cc) /\ board[p.rr][p.cc] = player

\* One iteration of the loop over DIRS: what it pushes onto flips.  When the
\* while loop's first test fails the line is empty and nothing is pushed.
dirLine(board, player, r, c, d) ==
  IF inBounds(r + DIRS[d][1], c + DIRS[d][2])
       /\ board[r + DIRS[d][1]][c + DIRS[d][2]] = opponent(player)
  THEN LET p == probe(board, opponent(player), r + DIRS[d][1], c + DIRS[d][2],
                      DIRS[d][1], DIRS[d][2], <<>>)
       IN IF lineCaptured(board, player, p) THEN p.line ELSE <<>>
  ELSE <<>>

\* for (const [dr, dc] of DIRS) ... flips.push(...line): the eight
\* iterations in the order of DIRS.
cellFlips(board, player, r, c) ==
  dirLine(board, player, r, c, 1) \o dirLine(board, player, r, c, 2)
    \o dirLine(board, player, r, c, 3) \o dirLine(board, player, r, c, 4)
    \o dirLine(board, player, r, c, 5) \o dirLine(board, player, r, c, 6)
    \o dirLine(board, player, r, c, 7) \o dirLine(board, player, r, c, 8)

\* for (let c = 0; c < N; c++) { ... if (flips.length) moves.set(key, flips) }
RECURSIVE scanRow(_, _, _, _, _)
scanRow(board, player, r, c, moves) ==
  IF Evaluated(moves) /\ c >= N THEN moves
  ELSE IF board[r][c] # EMPTY THEN scanRow(board, player, r, c + 1, moves)
       ELSE LET flips == cellFlips(board, player, r, c)
            IN scanRow(board, player, r, c + 1,
                       IF Len(flips) > 0 THEN MapSet(moves, Key(r, c), flips)
                       ELSE moves)

\* for (let r = 0; r < N; r++)
RECURSIVE scanRows(_, _, _, _)
scanRows(board, player, r, moves) ==
  IF r >= N THEN moves
  ELSE scanRows(board, player, r + 1, scanRow(board, player, r, 0, moves))

getValidMoves(board, player) == scanRows(board, player, 0, <<>>)

(***************************************************************************)
(* Move applier.                                                           *)
(***************************************************************************)
RECURSIVE flipLoop(_, _, _, _)
flipLoop(nb, player, flips, i) ==
  IF Evaluated(nb) /\ i > Len(flips) THEN nb
  ELSE flipLoop([nb EXCEPT ![flips[i][1]][flips[i][2]] = player], player, flips, i + 1)

\* A move applier that flips on the board it was given and loses the
\* destination disc.
applyMove_NoDestination(board, r, c, player, flips) ==
  flipLoop(cloneBoard(board), player, flips, 1)

\* A move applier that places the disc and flips nothing.
applyMove_NoFlips(board, r, c, player, flips) ==
  LET nb == cloneBoard(board)
  IN [nb EXCEPT ![r][c] = player]

applyMove(board, r, c, player, flips) ==
  LET nb == cloneBoard(board)
  IN flipLoop([nb EXCEPT ![r][c] = player], player, flips, 1)

(***************************************************************************)
(* Heuristic move choice.                                                  *)
(***************************************************************************)
moveScore(key, flips, board, aiSide) ==
  LET rc == SplitKey(key)
      weight == WEIGHTS[rc[1] + 1][rc[2] + 1]
      nb == applyMove(board, rc[1], rc[2], aiSide, flips)
      oppMoves == getValidMoves(nb, opponent(aiSide))
      mobility == 0 - MapSize(oppMoves)
  IN weight + Len(flips) * 3 + mobility * 2

\* bestScore is -Infinity or a number n, written <<>> and <<n>>.
NegInfinity == <<>>

\* score >= bestScore: the last of the best moves wins.
scoreBeats_OrEqual(score, bestScore) ==
  bestScore = NegInfinity \/ score >= bestScore[1]

\* score > bestScore
scoreBeats(score, bestScore) == bestScore = NegInfinity \/ score > bestScore[1]

RECURSIVE pickLoop(_, _, _, _, _, _)
pickLoop(validMoves, board, aiSide, i, bestKey, bestScore) ==
  IF i > MapSize(validMoves) THEN bestKey
  ELSE LET score == moveScore(validMoves[i].key, validMoves[i].flips, board, aiSide)
       IN IF scoreBeats(score, bestScore)
          THEN pickLoop(validMoves, board, aiSide, i + 1, validMoves[i].key, <<score>>)
          ELSE pickLoop(validMoves, board, aiSide, i + 1, bestKey, bestScore)

aiPick(validMoves, board, aiSide) ==
  pickLoop(validMoves, board, aiSide, 1, Null, NegInfinity)

(***************************************************************************)
(* Component state of ReversiApp.  lastMove and showHint are presentation  *)
(* state that no handler and no effect reads; they are not modelled.       *)
(* timers is the queue of setTimeout continuations of the AI effect, in    *)
(* the order they were started (all have the same delay, so they run in    *)
(* that order).  Each holds the effect's cancelled flag and the board and  *)
(* turn its closure captured; a cancelled continuation returns before it   *)
(* reads its closure, so a cancelled timer keeps only its flag.            *)
(***************************************************************************)
VARIABLES board, turn, history, vsAI, aiSide, message, gameOver, timers

vars == <<board, turn, history, vsAI, aiSide, message, gameOver, timers>>

St ==
  [board |-> board, turn |-> turn, history |-> history, vsAI |-> vsAI,
   aiSide |-> aiSide, message |-> message, gameOver |-> gameOver,
   timers |-> timers]

\* const validMoves = useMemo(() => getValidMoves(board, turn), [board, turn])
validMoves == getValidMoves(board, turn)

\* Cells the user clicks in the model.
ClickCells == { <<2, 3>>, <<2, 1>>, <<2, 5>>, <<4, 5>>, <<1, 1>>, <<0, 0>> }

CancelledTimer == [cancelled |-> TRUE, board |-> <<>>, turn |-> EMPTY]

\* A cleanup that leaves the flag alone.
cleanup_Nothing(q) == q

\* return () => { cancelled = true; }  The effect being cleaned up is the
\* latest one, whose timer (if it has one that has not run) is the last.
cleanup(q) ==
  IF Len(q) = 0 THEN q ELSE [q EXCEPT ![Len(q)] = CancelledTimer]

\* A pushMove that ends the game as soon as the opponent has no move.
pushMove_OverWhenOpponentStuck(s, b, t, r, c, flips) ==
  LET h2 == Append(s.history, [board |-> cloneBoard(b), turn |-> t])
      nb == applyMove(b, r, c, t, flips)
      next == opponent(t)
  IN IF MapSize(getValidMoves(nb, next)) = 0
     THEN [s EXCEPT !.history = h2, !.board = nb, !.gameOver = TRUE]
     ELSE [s EXCEPT !.history = h2, !.board = nb, !.turn = next]

\* A pushMove that never lets the mover play again: the turn goes to the
\* opponent unless the game is over.
pushMove_NoPass(s, b, t, r, c, flips) ==
  LET h2 == Append(s.history, [board |-> cloneBoard(b), turn |-> t])
      nb == applyMove(b, r, c, t, flips)
      next == opponent(t)
  IN IF MapSize(getValidMoves(nb, next)) = 0 /\ MapSize(getValidMoves(nb, t)) = 0
     THEN [s EXCEPT !.history = h2, !.board = nb, !.gameOver = TRUE]
     ELSE [s EXCEPT !.history = h2, !.board = nb, !.turn = next]

\* A pushMove that records the board after the move instead of the one
\* before it.
pushMove_PushesAfter(s, b, t, r, c, flips) ==
  LET nb == applyMove(b, r, c, t, flips)
      h2 == Append(s.history, [board |-> nb, turn |-> t])
      next == opponent(t)
  IN IF MapSize(getValidMoves(nb, next)) = 0
     THEN IF MapSize(getValidMoves(nb, t)) = 0
          THEN [s EXCEPT !.history = h2, !.board = nb, !.gameOver = TRUE]
          ELSE [s EXCEPT !.history = h2, !.board = nb,
                         !.message = PassMessage, !.turn = t]
     ELSE [s EXCEPT !.history = h2, !.board = nb, !.turn = next]

\* A pushMove that never ends the game: when neither side can move the turn
\* goes to the opponent.
pushMove_NeverOver(s, b, t, r, c, flips) ==
  LET h2 == Append(s.history, [board |-> cloneBoard(b), turn |-> t])
      nb == applyMove(b, r, c, t, flips)
      next == opponent(t)
  IN IF MapSize(getValidMoves(nb, next)) = 0 /\ MapSize(getValidMoves(nb, t)) > 0
     THEN [s EXCEPT !.history = h2, !.board = nb,
                    !.message = PassMessage, !.turn = t]
     ELSE [s EXCEPT !.history = h2, !.board = nb, !.turn = next]

\* pushMove of the render whose board and turn are b and t.
pushMove(s, b, t, r, c, flips) ==
  LET h2 == Append(s.history, [board |-> cloneBoard(b), turn |-> t])
      nb == applyMove(b, r, c, t, flips)
      next == opponent(t)
      nextMoves == getValidMoves(nb, next)
  IN IF MapSize(nextMoves) = 0
     THEN LET backToYou == getValidMoves(nb, t)
          IN IF MapSize(backToYou) = 0
             THEN [s EXCEPT !.history = h2, !.board = nb, !.gameOver = TRUE]
             ELSE [s EXCEPT !.history = h2, !.board = nb,
                            !.message = PassMessage, !.turn = t]
     ELSE [s EXCEPT !.history = h2, !.board = nb, !.turn = next]

\* The AI effect, run after a render in which vsAI, aiSide, turn or board
\* changed: the previous effect's cleanup, then the effect body up to its
\* await.  Its pass branch sets the turn, which runs the effect once more.
RECURSIVE aiEffect(_)
aiEffect(s) ==
  LET s1 == [s EXCEPT !.timers = cleanup(s.timers)]
  IN IF ~s1.vsAI THEN s1
     ELSE IF s1.turn # s1.aiSide THEN s1
     ELSE LET moves == getValidMoves(s1.board, s1.turn)
          IN IF MapSize(moves) = 0
             THEN LET next == opponent(s1.turn)
                      yourMoves == getValidMoves(s1.board, next)
                  IN IF MapSize(yourMoves) = 0
                     THEN [s1 EXCEPT !.gameOver = TRUE]
                     ELSE aiEffect([s1 EXCEPT !.message = PassMessage, !.turn = next])
             ELSE [s1 EXCEPT !.timers =
                     Append(@, [cancelled |-> FALSE, board |-> s1.board,
                                turn |-> s1.turn])]

\* A dependency list without vsAI and aiSide.
depsChanged_BoardAndTurn(old, new, boardSet) ==
  boardSet \/ old.turn # new.turn

\* The effect's dependency list [vsAI, aiSide, turn, board]; a board set by
\* setBoard is always a new array.
depsChanged(old, new, boardSet) ==
  boardSet \/ old.vsAI # new.vsAI \/ old.aiSide # new.aiSide \/ old.turn # new.turn

afterRender(old, new, boardSet) ==
  IF depsChanged(old, new, boardSet) THEN aiEffect(new) ELSE new

\* The continuation of doAI after its await.
doAIResume(s) ==
  LET t == Head(s.timers)
      s1 == [s EXCEPT !.timers = Tail(@)]
  IN IF t.cancelled THEN s1
     ELSE LET moves == getValidMoves(t.board, t.turn)
              picked == aiPick(moves, t.board, t.turn)
              key == IF picked # Null THEN picked ELSE moves[1].key
              rc == SplitKey(key)
              flips == MapGet(moves, key)
          IN afterRender(s1, pushMove(s1, t.board, t.turn, rc[1], rc[2], flips), TRUE)

\* A click handler that does not look at whose turn it is.
handleClickCell_AnyTurn(s, vm, r, c) ==
  IF s.gameOver THEN s
  ELSE LET key == Key(r, c)
       IN IF ~MapHas(vm, key) THEN s
          ELSE afterRender(s, pushMove(s, s.board, s.turn, r, c, MapGet(vm, key)), TRUE)

\* vm is the validMoves memo of the render the handler belongs to.
handleClickCell(s, vm, r, c) ==
  IF s.gameOver THEN s
  ELSE IF s.vsAI /\ s.turn = s.aiSide THEN s
  ELSE LET key == Key(r, c)
       IN IF ~MapHas(vm, key) THEN s
          ELSE afterRender(s, pushMove(s, s.board, s.turn, r, c, MapGet(vm, key)), TRUE)

\* Board's disabled prop and Cell's onClick: () => !disabled && onClickCell(r, c)
boardDisabled(s) == s.gameOver \/ (s.vsAI /\ s.turn = s.aiSide)

cellOnClick(s, vm, r, c) == IF boardDisabled(s) THEN s ELSE handleClickCell(s, vm, r, c)

\* An undo that restores the last entry without popping it.
handleUndo_NoPop(s) ==
  IF Len(s.history) = 0 \/ (s.vsAI /\ s.turn = s.aiSide) THEN s
  ELSE LET prev == s.history[Len(s.history)]
       IN afterRender(s,
            [s EXCEPT !.board = prev.board, !.turn = prev.turn, !.gameOver = FALSE],
            TRUE)

handleUndo(s) ==
  IF Len(s.history) = 0 \/ (s.vsAI /\ s.turn = s.aiSide) THEN s
  ELSE LET prev == s.history[Len(s.history)]
       IN afterRender(s,
            [s EXCEPT !.history = SubSeq(@, 1, Len(@) - 1), !.board = prev.board,
                      !.turn = prev.turn, !.gameOver = FALSE],
            TRUE)

\* The undo button's disabled prop.
undoDisabled(s) == Len(s.history) = 0 \/ (s.vsAI /\ s.turn = s.aiSide)

undoOnClick(s) == IF undoDisabled(s) THEN s ELSE handleUndo(s)

\* A restart that forgets setGameOver(false).
handleRestart_KeepsGameOver(s) ==
  afterRender(s,
    [s EXCEPT !.board = initBoard, !.turn = BLACK, !.history = <<>>,
              !.message = NoMessage],
    TRUE)

handleRestart(s) ==
  afterRender(s,
    [s EXCEPT !.board = initBoard, !.turn = BLACK, !.history = <<>>,
              !.message = NoMessage, !.gameOver = FALSE],
    TRUE)

\* Toggle: onChange(!enabled) with onChange = setVsAI
toggleOnClick(s) == afterRender(s, [s EXCEPT !.vsAI = ~s.vsAI], FALSE)

\* Segmented: () => !disabled && onChange(o.key) with onChange = setAiSide
segmentedDisabled(s) == ~s.vsAI \/ (s.vsAI /\ s.turn = s.aiSide)

segmentedOnClick(s, v) ==
  IF segmentedDisabled(s) THEN s ELSE afterRender(s, [s EXCEPT !.aiSide = v], FALSE)

\* The "view board" button of the end-of-game overlay.
viewBoardOnClick(s) == [s EXCEPT !.gameOver = FALSE]

\* setTimeout(() => setMessage(""), 1800)
messageTimeout(s) == [s EXCEPT !.message = NoMessage]

\* A winner that gives a tie to Dark.
winner_TieToDark(over, scores) ==
  IF ~over THEN Null
  ELSE IF scores.black >= scores.white THEN BLACK
  ELSE IF scores.white > scores.black THEN WHITE
  ELSE DRAW

\* const winner = useMemo(...)
winner(over, scores) ==
  IF ~over THEN Null
  ELSE IF scores.black > scores.white THEN BLACK
  ELSE IF scores.white > scores.black THEN WHITE
  ELSE DRAW

(***************************************************************************)
(* The state machine.                                                      *)
(***************************************************************************)
Init ==
  /\ board = initBoard
  /\ turn = BLACK
  /\ history = <<>>
  /\ vsAI = TRUE
  /\ aiSide = WHITE
  /\ message = NoMessage
  /\ gameOver = FALSE
  /\ timers = <<>>

\* The next state is s, within the bounds of the model.
Becomes(s) ==
  /\ Len(s.history) <= MaxPlies
  /\ Len(s.timers) <= MaxTimers
  /\ board' = s.board
  /\ turn' = s.turn
  /\ history' = s.history
  /\ vsAI' = s.vsAI
  /\ aiSide' = s.aiSide
  /\ message' = s.message
  /\ gameOver' = s.gameOver
  /\ timers' = s.timers

ClickCell ==
  LET vm == validMoves
  IN \E rc \in ClickCells : Becomes(cellOnClick(St, vm, rc[1], rc[2]))

TimerFires == Len(timers) > 0 /\ Becomes(doAIResume(St))

Undo == Becomes(undoOnClick(St))

Restart == Becomes(handleRestart(St))

ToggleVsAI == Becomes(toggleOnClick(St))

SetAiSide == \E v \in {WHITE, BLACK} : Becomes(segmentedOnClick(St, v))

ViewBoard == gameOver /\ Becomes(viewBoardOnClick(St))

MessageTimeout == message # NoMessage /\ Becomes(messageTimeout(St))

Next ==
  \/ ClickCell
  \/ TimerFires
  \/ Undo
  \/ Restart
  \/ ToggleVsAI
  \/ SetAiSide
  \/ ViewBoard
  \/ MessageTimeout

Spec == Init /\ [][Next]_vars

(***************************************************************************)
(* A second state machine over the same variables, for the pure functions  *)
(* of the rules engine: it starts from boards of bounded families, with    *)
(* either side to move and the game-over flag set or not, and applies      *)
(* legal moves (one chosen by index, or the one aiPick chooses) through    *)
(* applyMove, recording the board before each move in history.             *)
(***************************************************************************)
\* Number of pattern boards.
NumPatterns == 4
\* Moves applied from one starting board.
MaxFnMoves == 1
\* A move is chosen among the first MaxFnChoices entries of the move map.
MaxFnChoices == 2

\* Boards mixing the three cell states in irregular patterns.
PatternBoard(k) ==
  [r \in Idx |-> [c \in Idx |->
     (((k + 2) * (3 * r + 5 * c + 1) + r * c * (k + 1) + (r \div 2) * (c \div 3)) % 7) % 3]]

\* Full boards: the first k cells in row-major order Dark, the others Light.
FullBoard(k) ==
  [r \in Idx |-> [c \in Idx |-> IF r * N + c < k THEN BLACK ELSE WHITE]]

FnBoards ==
  {initBoard} \cup {PatternBoard(k) : k \in 0 .. (NumPatterns - 1)}
              \cup {FullBoard(k) : k \in 0 .. (N * N)}

InitFn ==
  /\ board \in FnBoards
  /\ turn \in {BLACK, WHITE}
  /\ gameOver \in BOOLEAN
  /\ history = <<>>
  /\ vsAI = FALSE
  /\ aiSide = WHITE
  /\ message = NoMessage
  /\ timers = <<>>

\* applyMove for entry i of the valid moves of the side to move.
FnPlay(i) ==
  LET rc == SplitKey(validMoves[i].key)
  IN /\ board' = applyMove(board, rc[1], rc[2], turn, validMoves[i].flips)
     /\ history' = Append(history, [board |-> cloneBoard(board), turn |-> turn])
     /\ turn' = opponent(turn)
     /\ UNCHANGED <<vsAI, aiSide, message, gameOver, timers>>

FnApplyMove ==
  /\ ~gameOver
  /\ Len(history) < MaxFnMoves
  /\ \E i \in 1 .. MaxFnChoices : i <= MapSize(validMoves) /\ FnPlay(i)

FnAiMove ==
  /\ ~gameOver
  /\ Len(history) < MaxFnMoves
  /\ aiPick(validMoves, board, turn) # Null
  /\ \E i \in 1 .. MapSize(validMoves) :
       validMoves[i].key = aiPick(validMoves, board, turn) /\ FnPlay(i)

NextFn == FnApplyMove \/ FnAiMove

SpecFn == InitFn /\ [][NextFn]_vars

(***************************************************************************)
(* A third state machine, for whole games: no undo, no restart and no      *)
(* change of settings.  A game starts in one of the settings the user can  *)
(* choose before the first move; the user clicks the cell the hint shows   *)
(* (or, on the first moves, one of ClickCells) and the computer's timer    *)
(* runs.  The side to move keeps moving: both actions are weakly fair.     *)
(***************************************************************************)
\* Moves of a game on which the user may click a cell other than the hint.
MaxFreePlies == 2

\* const hintKey = useMemo(...) with showHint on.
hintKey ==
  IF MapSize(validMoves) = 0 THEN Null ELSE aiPick(validMoves, board, turn)

\* The state after construction with the settings (vsAI, aiSide) = (m, a),
\* after the effect run that choosing them causes.
startOfGame(m, a) ==
  aiEffect([board |-> initBoard, turn |-> BLACK, history |-> <<>>, vsAI |-> m,
            aiSide |-> a, message |-> NoMessage, gameOver |-> FALSE,
            timers |-> <<>>])

PlaySettings == { <<TRUE, WHITE>>, <<TRUE, BLACK>>, <<FALSE, WHITE>> }

InitPlay ==
  \E ma \in PlaySettings :
    LET s == startOfGame(ma[1], ma[2])
    IN /\ board = s.board
       /\ turn = s.turn
       /\ history = s.history
       /\ vsAI = s.vsAI
       /\ aiSide = s.aiSide
       /\ message = s.message
       /\ gameOver = s.gameOver
       /\ timers = s.timers

\* The next state is s.
PlayBecomes(s) ==
  /\ board' = s.board
  /\ turn' = s.turn
  /\ history' = s.history
  /\ vsAI' = s.vsAI
  /\ aiSide' = s.aiSide
  /\ message' = s.message
  /\ gameOver' = s.gameOver
  /\ timers' = s.timers

PlayClick ==
  LET vm == validMoves
      hint == hintKey
  IN /\ hint # Null
     /\ \E rc \in {SplitKey(hint)} \cup (IF Len(history) < MaxFreePlies THEN ClickCells ELSE {}) :
          PlayBecomes(cellOnClick(St, vm, rc[1], rc[2]))

PlayTimer == Len(timers) > 0 /\ PlayBecomes(doAIResume(St))

NextPlay == PlayClick \/ PlayTimer

SpecPlay ==
  InitPlay /\ [][NextPlay]_vars /\ WF_vars(PlayClick) /\ WF_vars(PlayTimer)

(***************************************************************************)
(* Properties of the turn controller.                                      *)
(***************************************************************************)
HasMove(b, p) == MapSize(getValidMoves(b, p)) > 0

LiveTimers == {i \in 1 .. Len(timers) : ~timers[i].cancelled}

\* C1: whenever the game is marked over, neither Dark nor Light has a legal
\* move on the current board (whichever of pushMove and the computer's
\* no-move branch set the flag).
C1_GameOverOnlyWhenStuck ==
  gameOver => (~HasMove(board, BLACK) /\ ~HasMove(board, WHITE))

\* The game has ended after a move of the computer, whose effect then ran
\* its no-move branch on the final board.
C1_Witness ==
  gameOver /\ Len(history) > 0 /\ vsAI /\ turn = aiSide

\* C2: a step that applies a move of side S = turn and produces board B'
\* leads to ToMove(opponent(S)) if the opponent has a move on B', else to
\* ToMove(S) with the pass message if S has a move on B', else to GameOver.
C2_NextStateAfterMove ==
  [][Len(history') = Len(history) + 1 =>
       IF HasMove(board', opponent(turn))
       THEN turn' = opponent(turn) /\ ~gameOver'
       ELSE IF HasMove(board', turn)
            THEN turn' = turn /\ ~gameOver' /\ message' = PassMessage
            ELSE gameOver']_vars

\* A forced pass has just happened: the mover is to move again.
C2_Witness ==
  /\ ~gameOver
  /\ message = PassMessage
  /\ Len(history) > 0
  /\ history[Len(history)].turn = turn
  /\ ~HasMove(board, opponent(turn))
  /\ HasMove(board, turn)

\* C3: in every reachable state the game is marked over or the side to move
\* has a legal move.
C3_OverOrCanMove == gameOver \/ HasMove(board, turn)

\* C4: after two applied moves two consecutive undo requests succeed, each
\* restoring the board and side to move recorded before the corresponding
\* move, most recent first.
C4_TwoUndos ==
  Len(history) >= 2 =>
    LET n == Len(history)
        s1 == undoOnClick(St)
        s2 == undoOnClick(s1)
    IN /\ Len(s1.history) = n - 1
       /\ s1.board = history[n].board
       /\ s1.turn = history[n].turn
       /\ Len(s2.history) = n - 2
       /\ s2.board = history[n - 1].board
       /\ s2.turn = history[n - 1].turn

\* C5: every computer move that is waiting out its delay and has not been
\* cancelled was computed for the current board and the current side to
\* move, with the computer enabled and playing that side; so it is applied
\* only to the board it was computed from, and once the state has changed
\* it is cancelled.
C5_PendingMoveIsCurrent ==
  \A i \in LiveTimers :
    /\ timers[i].board = board
    /\ timers[i].turn = turn
    /\ vsAI
    /\ aiSide = turn

\* A pending computer move was cancelled by a change of the game state and
\* its timer has not run yet.
C5_Witness ==
  /\ Len(timers) > 0
  /\ timers[1].cancelled
  /\ Len(history) > 0

\* C10: at most one computer move is pending and not cancelled, and while
\* the computer is to move a cell click and an undo request change nothing.
C10_OneTransitionInFlight ==
  /\ Cardinality(LiveTimers) <= 1
  /\ (vsAI /\ turn = aiSide) =>
       /\ \A rc \in Cells :
            /\ handleClickCell(St, validMoves, rc[1], rc[2]) = St
            /\ cellOnClick(St, validMoves, rc[1], rc[2]) = St
       /\ handleUndo(St) = St
       /\ undoOnClick(St) = St

\* The computer is to move with its move pending, a legal cell exists and
\* there is something to undo.
C10_Witness ==
  /\ vsAI
  /\ turn = aiSide
  /\ ~gameOver
  /\ Len(history) > 0
  /\ Cardinality(LiveTimers) = 1
  /\ Len(timers) = 2

(***************************************************************************)
(* Properties of the rules engine.                                         *)
(***************************************************************************)
Range(f) == {f[i] : i \in DOMAIN f}

\* Reference definition of a capture: along direction d from (r, c), the k
\* cells next to it hold the opponent and the cell after them is on the
\* board and holds player.
RefRun(b, player, r, c, d, k) ==
  LET dr == DIRS[d][1]
      dc == DIRS[d][2]
  IN /\ \A j \in 1 .. k :
          /\ <<r + j * dr, c + j * dc>> \in Cells
          /\ b[r + j * dr][c + j * dc] = opponent(player)
     /\ <<r + (k + 1) * dr, c + (k + 1) * dc>> \in Cells
     /\ b[r + (k + 1) * dr][c + (k + 1) * dc] = player

RefCaptured(b, player, r, c) ==
  UNION { {<<r + j * DIRS[dk[1]][1], c + j * DIRS[dk[1]][2]>> : j \in 1 .. dk[2]} :
          dk \in {x \in (1 .. 8) \X (1 .. (N - 2)) : RefRun(b, player, r, c, x[1], x[2])} }

RefLegal(b, player) ==
  {rc \in Cells : b[rc[1]][rc[2]] = EMPTY /\ RefCaptured(b, player, rc[1], rc[2]) # {}}

Discs(b, v) == {rc \in Cells : b[rc[1]][rc[2]] = v}

\* C6: the keys of getValidMoves are exactly the legal cells of the
\* reference definition, each once, and the flips of a key are exactly the
\* cells the reference definition captures, each once and never none.
C6_ValidMovesAreReference ==
  LET m == getValidMoves(board, turn)
  IN /\ {SplitKey(m[i].key) : i \in 1 .. Len(m)} = RefLegal(board, turn)
     /\ Cardinality({m[i].key : i \in 1 .. Len(m)}) = Len(m)
     /\ \A i \in 1 .. Len(m) :
          LET rc == SplitKey(m[i].key)
              cap == RefCaptured(board, turn, rc[1], rc[2])
          IN /\ Range(m[i].flips) = cap
             /\ Len(m[i].flips) = Cardinality(cap)
             /\ Len(m[i].flips) > 0
             /\ \A f \in Range(m[i].flips) : board[f[1]][f[2]] = opponent(turn)

\* A board with a move that captures three or more discs and an empty cell
\* next to an opponent disc that is not a legal move.
C6_Witness ==
  LET m == getValidMoves(board, turn)
  IN /\ \E i \in 1 .. Len(m) : Len(m[i].flips) >= 3
     /\ \E rc \in Cells :
          /\ board[rc[1]][rc[2]] = EMPTY
          /\ ~MapHas(m, Key(rc[1], rc[2]))
          /\ \E d \in 1 .. 8 :
               /\ <<rc[1] + DIRS[d][1], rc[2] + DIRS[d][2]>> \in Cells
               /\ board[rc[1] + DIRS[d][1]][rc[2] + DIRS[d][2]] = opponent(turn)

\* C7: applying any legal move of the side to move gives a board on which
\* the destination and the captured cells hold that side, every other cell
\* is unchanged, and the disc count is the previous count plus one.
C7_ApplyMoveFrame ==
  \A i \in 1 .. Len(validMoves) :
    LET rc == SplitKey(validMoves[i].key)
        F == Range(validMoves[i].flips)
        nb == applyMove(board, rc[1], rc[2], turn, validMoves[i].flips)
        before == countScore(board)
        after == countScore(nb)
    IN /\ DOMAIN nb = Idx
       /\ \A r \in Idx : DOMAIN nb[r] = Idx
       /\ \A x \in Cells :
            nb[x[1]][x[2]] = IF x = rc \/ x \in F THEN turn ELSE board[x[1]][x[2]]
       /\ after.black + after.white = before.black + before.white + 1
       /\ Cardinality(Cells \ Discs(nb, EMPTY)) = Cardinality(Cells \ Discs(board, EMPTY)) + 1

\* A move has been applied that captured at least two discs.
C7_Witness ==
  /\ Len(history) > 0
  /\ Cardinality({x \in Cells : board[x[1]][x[2]] # history[Len(history)].board[x[1]][x[2]]}) >= 3

\* C8: the winner is reported only when the game is over, and then it is
\* Dark iff Dark has more discs, Light iff Light has more, a draw iff the
\* counts are equal.
C8_WinnerFromTally ==
  LET w == winner(gameOver, countScore(board))
      nb == Cardinality(Discs(board, BLACK))
      nw == Cardinality(Discs(board, WHITE))
  IN /\ ~gameOver => w = Null
     /\ gameOver => /\ w \in {BLACK, WHITE, DRAW}
                    /\ w = BLACK <=> nb > nw
                    /\ w = WHITE <=> nw > nb
                    /\ w = DRAW <=> nb = nw

\* The game is over with 35 Dark discs against 29 Light discs.
C8_Witness ==
  /\ gameOver
  /\ Cardinality(Discs(board, BLACK)) = 35
  /\ Cardinality(Discs(board, WHITE)) = 29
  /\ winner(gameOver, countScore(board)) = BLACK

\* Score of entry i of the valid moves, from the definition of the score.
RefScore(i) ==
  LET rc == SplitKey(validMoves[i].key)
      nb == applyMove(board, rc[1], rc[2], turn, validMoves[i].flips)
  IN WEIGHTS[rc[1] + 1][rc[2] + 1] + 3 * Len(validMoves[i].flips)
       - 2 * MapSize(getValidMoves(nb, opponent(turn)))

RowMajor(key) == SplitKey(key)[1] * N + SplitKey(key)[2]

\* C9: aiPick returns none iff there is no valid move; otherwise it returns
\* a destination of maximal score, the first in row-major order among those.
C9_AiPickIsFirstBest ==
  LET picked == aiPick(validMoves, board, turn)
  IN IF Len(validMoves) = 0 THEN picked = Null
     ELSE \E i \in 1 .. Len(validMoves) :
            /\ picked = validMoves[i].key
            /\ \A j \in 1 .. Len(validMoves) :
                 \/ RefScore(j) < RefScore(i)
                 \/ /\ RefScore(j) = RefScore(i)
                    /\ RowMajor(validMoves[i].key) <= RowMajor(validMoves[j].key)

\* Two valid moves share the maximal score and the one aiPick returns is
\* not the last of them.
C9_Witness ==
  \E i, j \in 1 .. Len(validMoves) :
    /\ i < j
    /\ RefScore(i) = RefScore(j)
    /\ \A k \in 1 .. Len(validMoves) : RefScore(k) <= RefScore(i)
    /\ aiPick(validMoves, board, turn) = validMoves[i].key

(***************************************************************************)
(* Properties of the history stack, of the initial state and of restart.   *)
(***************************************************************************)
NumDiscs(b) == Cardinality(Cells \ Discs(b, EMPTY))

\* The board b2 is the result of a legal move of side t on board b.
MoveFrom(b, t, b2) ==
  LET m == getValidMoves(b, t)
  IN \E i \in 1 .. Len(m) :
       b2 = applyMove(b, SplitKey(m[i].key)[1], SplitKey(m[i].key)[2], t, m[i].flips)

\* C11: a step that puts a disc on the board pushes exactly one entry, the
\* board and side to move of the state it leaves; no other step pushes; a
\* step that keeps the board keeps the history; an undo request that is
\* accepted pops exactly the last entry and restores it; and the last entry
\* is always the state before the last applied move, the current board
\* being the result of a legal move of the recorded side on the recorded
\* board.
C11_HistoryIsChronological ==
  /\ [][/\ NumDiscs(board') > NumDiscs(board)
             => history' = Append(history, [board |-> board, turn |-> turn])
        /\ Len(history') > Len(history)
             => /\ history' = Append(history, [board |-> board, turn |-> turn])
                /\ NumDiscs(board') = NumDiscs(board) + 1
        /\ board' = board => history' = history]_vars
  /\ [](LET n == Len(history)
            s == undoOnClick(St)
        IN /\ s # St => /\ s.history = SubSeq(history, 1, n - 1)
                        /\ s.board = history[n].board
                        /\ s.turn = history[n].turn
           /\ n > 0 => MoveFrom(history[n].board, history[n].turn, board))

\* A move has just made the opponent pass: one entry was pushed for it, the
\* recorded side is the side to move again, and an undo would be accepted.
C11_Witness ==
  /\ Len(history) >= 2
  /\ message = PassMessage
  /\ history[Len(history)].turn = turn
  /\ history[Len(history) - 1].turn # turn
  /\ undoOnClick(St) # St

\* C12: with an empty history (the initial state, and every state that a
\* restart or the undo of the first move returns to) Dark is to move, the
\* board holds exactly 4 discs, Light at (3,3) and (4,4) and Dark at (3,4)
\* and (4,3), and each side has exactly 4 legal moves on it.
C12_InitialState ==
  Len(history) = 0 =>
    /\ turn = BLACK
    /\ \A rc \in Cells :
         board[rc[1]][rc[2]] =
           IF rc \in {<<3, 3>>, <<4, 4>>} THEN WHITE
           ELSE IF rc \in {<<3, 4>>, <<4, 3>>} THEN BLACK
           ELSE EMPTY
    /\ NumDiscs(board) = 4
    /\ MapSize(getValidMoves(board, BLACK)) = 4
    /\ MapSize(getValidMoves(board, WHITE)) = 4

\* The state after construction: nothing played, nothing pending.
C12_Witness ==
  /\ history = <<>>
  /\ timers = <<>>
  /\ vsAI
  /\ aiSide = WHITE
  /\ board = initBoard
  /\ MapSize(validMoves) = 4

\* C13: on the initial board (2,3) is a legal move of Dark that captures
\* exactly (3,3); and the step in which Dark plays (2,3) from the initial
\* state gives the board with Dark at (3,3), (3,4), (4,3), (2,3), Light only
\* at (4,4) and every other cell Empty, with Light to move and the game
\* not over.
C13_FirstMove ==
  /\ [](Len(history) = 0 =>
          /\ MapHas(validMoves, Key(2, 3))
          /\ MapGet(validMoves, Key(2, 3)) = << <<3, 3>> >>)
  /\ [][(Len(history) = 0 /\ Len(history') = 1 /\ board'[2][3] # EMPTY) =>
          /\ \A rc \in Cells :
               board'[rc[1]][rc[2]] =
                 IF rc \in {<<3, 3>>, <<3, 4>>, <<4, 3>>, <<2, 3>>} THEN BLACK
                 ELSE IF rc = <<4, 4>> THEN WHITE
                 ELSE EMPTY
          /\ turn' = WHITE
          /\ ~gameOver']_vars

\* Dark has played (2,3) as the first move.
C13_Witness ==
  /\ Len(history) = 1
  /\ history[1].board = initBoard
  /\ history[1].turn = BLACK
  /\ board[2][3] = BLACK

\* C14: every step that puts a disc on the board (by a click or by the
\* computer) yields the board applyMove gives for the current board, the
\* current side to move, a destination that is Empty on the current board
\* and the capture list getValidMoves returns for that board, side and
\* destination; and a click on a cell that is not a legal destination, or a
\* click while the game is over, leaves the state as it is.
C14_MovesComeFromLegalMoves ==
  /\ [][NumDiscs(board') > NumDiscs(board) =>
          LET vm == validMoves
          IN \E i \in 1 .. Len(vm) :
               LET rc == SplitKey(vm[i].key)
               IN /\ board[rc[1]][rc[2]] = EMPTY
                  /\ board'[rc[1]][rc[2]] = turn
                  /\ board' = applyMove(board, rc[1], rc[2], turn, MapGet(vm, Key(rc[1], rc[2])))]_vars
  /\ [](LET vm == validMoves
        IN \A rc \in Cells :
             (gameOver \/ ~MapHas(vm, Key(rc[1], rc[2]))) =>
               /\ handleClickCell(St, vm, rc[1], rc[2]) = St
               /\ cellOnClick(St, vm, rc[1], rc[2]) = St)

\* The computer has just moved and it is the human's turn: some cells are
\* legal destinations of a click and some empty cells are not.
C14_Witness ==
  /\ vsAI
  /\ turn # aiSide
  /\ ~gameOver
  /\ Len(history) >= 2
  /\ MapHas(validMoves, Key(2, 1))
  /\ board[0][0] = EMPTY
  /\ ~MapHas(validMoves, Key(0, 0))

\* C15: in every reachable state a restart request yields the initial
\* board, Dark to move, an empty history, no message and the game not over,
\* with the mode settings kept; every computer move that was pending before
\* the restart is cancelled, and a computer move pending after it was
\* computed for the restarted game.
C15_RestartGivesInitialState ==
  LET s == handleRestart(St)
  IN /\ s.board = initBoard
     /\ s.turn = BLACK
     /\ s.history = <<>>
     /\ s.message = NoMessage
     /\ ~s.gameOver
     /\ s.vsAI = vsAI
     /\ s.aiSide = aiSide
     /\ Len(s.timers) >= Len(timers)
     /\ \A i \in 1 .. Len(timers) : s.timers[i].cancelled
     /\ \A i \in 1 .. Len(s.timers) :
          ~s.timers[i].cancelled =>
            /\ s.timers[i].board = initBoard
            /\ s.timers[i].turn = BLACK
            /\ s.vsAI
            /\ s.aiSide = BLACK

\* A computer move is waiting out its delay in a game that has moves played,
\* so that a restart now has a pending move to discard.
C15_Witness ==
  /\ Len(history) >= 1
  /\ Len(timers) >= 1
  /\ ~timers[Len(timers)].cancelled
  /\ handleRestart(St).timers[Len(timers)].cancelled
  /\ handleRestart(St).board # board

\* C16: in every reachable state the history holds as many entries as the
\* board holds discs beyond the initial four, and the side recorded in each
\* entry has at least one legal move on the board recorded with it (an
\* empty cell for which the scan of getValidMoves collects a capture).
C16_HistoryLengthIsDiscsMinusFour ==
  /\ Len(history) = NumDiscs(board) - 4
  /\ \A i \in 1 .. Len(history) :
       /\ NumDiscs(history[i].board) = 4 + i - 1
       /\ \E r \in Idx, c \in Idx :
            /\ history[i].board[r][c] = EMPTY
            /\ Len(cellFlips(history[i].board, history[i].turn, r, c)) > 0

\* A game has been played to its end in nine moves: thirteen discs, nine
\* entries.
C16_Witness ==
  /\ gameOver
  /\ Len(history) = 9
  /\ NumDiscs(board) = 13

(***************************************************************************)
(* Properties of the computer's move.                                      *)
(***************************************************************************)
\* C17: a step that puts a disc on the board while a computer move is
\* pending is the computer's move: vs-computer mode is on, the side to move
\* is the configured computer side and the disc is of that side; a step that
\* puts a disc on the board while none is pending is not made for the
\* computer's side in vs-computer mode.  Turning vs-computer mode off leaves
\* no pending computer move, and after a change of the computer side a
\* pending move is one computed for the new computer side to move.
C17_ComputerMovesOnlyForItsSide ==
  /\ [][NumDiscs(board') > NumDiscs(board) =>
          IF LiveTimers # {}
          THEN /\ vsAI
               /\ turn = aiSide
               /\ \A i \in LiveTimers : timers[i].turn = aiSide
               /\ Cardinality(Discs(board', aiSide)) > Cardinality(Discs(board, aiSide))
               /\ vsAI' = vsAI
               /\ aiSide' = aiSide
          ELSE ~(vsAI /\ turn = aiSide)]_vars
  /\ [](LET s == toggleOnClick(St)
        IN ~s.vsAI => \A i \in 1 .. Len(s.timers) : s.timers[i].cancelled)
  /\ [](\A v \in {WHITE, BLACK} :
          LET s == segmentedOnClick(St, v)
          IN \A i \in 1 .. Len(s.timers) :
               ~s.timers[i].cancelled =>
                 /\ s.vsAI
                 /\ s.turn = s.aiSide
                 /\ s.timers[i].turn = s.aiSide
                 /\ s.timers[i].board = s.board)

\* Vs-computer mode has been turned off while a computer move was pending:
\* the move is in the queue, cancelled, and the human may play that side.
C17_Witness ==
  /\ ~vsAI
  /\ turn = aiSide
  /\ Len(history) >= 1
  /\ Len(timers) >= 1
  /\ timers[Len(timers)].cancelled

\* What is left of a game: two steps for every empty cell (a click and the
\* timer it may start) and one for every timer in the queue.
Rank == 2 * (N * N - NumDiscs(board)) + Len(timers)

\* C18: in a game without undo and restart every step (a move, with the
\* pass it may cause, or a timer running) strictly decreases Rank, which is
\* never negative, so no infinite sequence of moves and passes exists;
\* every change of the board and every change of the side to move adds
\* exactly one disc; as long as the game is not over the side to move has a
\* legal move and can make it (the board accepts the user's click, or the
\* computer's move is pending); and a game has at most N*N - 4 applied
\* moves.
C18_EveryGameTerminates ==
  /\ [][/\ Rank' < Rank
        /\ board' # board => NumDiscs(board') = NumDiscs(board) + 1
        /\ turn' # turn => NumDiscs(board') = NumDiscs(board) + 1
        /\ ~gameOver]_vars
  /\ [](/\ Rank >= 0
        /\ Len(history) <= N * N - 4
        /\ Len(history) = NumDiscs(board) - 4
        /\ ~gameOver =>
             /\ hintKey # Null
             /\ IF vsAI /\ turn = aiSide
                THEN LiveTimers # {}
                ELSE cellOnClick(St, validMoves, SplitKey(hintKey)[1], SplitKey(hintKey)[2]) # St)

\* A game has ended with the board full, after N*N - 4 applied moves.
C18_Witness ==
  /\ gameOver
  /\ Len(history) = N * N - 4
  /\ NumDiscs(board) = N * N

\* The timers run, in the order they were started, until one of them has
\* applied its move or none is left.
RECURSIVE runTimers(_)
runTimers(s) ==
  IF Len(s.timers) = 0 THEN s
  ELSE IF Head(s.timers).cancelled THEN runTimers(doAIResume(s))
  ELSE doAIResume(s)

\* C19: in vs-computer mode, whenever the game is not over and the computer
\* is to move, letting the pending timers run (with no user action) applies
\* the move aiPick chooses on the current board for the current side, after
\* which the side to move has changed, or the game is over, or the computer
\* moves again because the human must pass.
C19_ComputerMoveArrives ==
  (vsAI /\ ~gameOver /\ turn = aiSide) =>
    LET s == runTimers(St)
        vm == validMoves
        key == aiPick(vm, board, turn)
    IN /\ key # Null
       /\ s.history = Append(history, [board |-> board, turn |-> turn])
       /\ s.board = applyMove(board, SplitKey(key)[1], SplitKey(key)[2], turn, MapGet(vm, key))
       /\ \/ s.turn # turn
          \/ s.gameOver
          \/ s.turn = aiSide /\ s.message = PassMessage

\* C20: in every game-over state with a non-empty history an undo request
\* is accepted: it clears the game-over flag, pops the last entry and
\* restores the board and the side to move recorded in it.
C20_UndoAfterGameOver ==
  (gameOver /\ Len(history) > 0) =>
    LET n == Len(history)
        s == undoOnClick(St)
    IN /\ ~s.gameOver
       /\ s.history = SubSeq(history, 1, n - 1)
       /\ s.board = history[n].board
       /\ s.turn = history[n].turn

====
